---------------------------- MODULE Spec2Model ----------------------------
(***************************************************************************)
(* A model of the creative-evaluation backend (src/backend) and of the     *)
(* streaming chat frontend (src/FineTunedLLM/app.py).                      *)
(*                                                                         *)
(* Text is a sequence of one-character strings, so that lower(), strip(),  *)
(* len(), "in" (substring) and join() are computed character by character  *)
(* as Python computes them.  An Optional value is a sequence of length 0   *)
(* (None) or 1 (the value).  Scores are exact decimals counted in units    *)
(* of 0.00001; a score returned to the caller is counted in hundredths.    *)
(***************************************************************************)
EXTENDS Integers, Sequences, FiniteSets, TLC

VARIABLES
    \* --- direct calls of the router and of the agents -------------------
    content,        \* content_text handed to route / evaluate_*
    prompt,         \* Optional prompt
    rubric_text,    \* Optional rubric
    called,         \* which function was applied: "none", "route", ...
    result,         \* the dictionary the call returned
    \* --- POST /query -----------------------------------------------------
    request,        \* the form fields of the request being answered
    content_text,   \* Optional: the content assembled at line 134
    status,         \* HTTP status of the response (0: no request yet)
    response,       \* Optional: the QueryResponse body
    routed,         \* whether route() was invoked for this request
    \* --- chat frontend ---------------------------------------------------
    messages,       \* st.session_state.messages
    selection,      \* sidebar: [backend, cpu_base_model]
    has_cuda,       \* torch.cuda.is_available()
    cache,          \* st.cache_resource entries of load_tokenizer_and_model
    loads,          \* how many times each key was constructed successfully
    pc,             \* position of the script run in main()
    user_input,     \* Optional: the chat input of this script run
    handle,         \* (tokenizer, model) returned at line 203
    streamer,       \* the stream being iterated: kind, queue / generator
    thread,         \* "none" (no thread object), "running", "ending", "dead"
    partial_text,   \* the buffer of lines 222-236
    turn,           \* outcome of the latest turn
    emitted,        \* history: fragments the turn's stream has produced
    before,         \* history: the Conversation when the turn started
    failure,        \* history: what failed in the turn ("none" if nothing)
    started,        \* history: threads started by the turn
    orphans         \* generation threads alive after their script run was
                    \* stopped

agentVars == <<content, prompt, rubric_text, called, result>>
queryVars == <<request, content_text, status, response, routed>>
chatVars  == <<messages, selection, has_cuda, cache, loads, pc, user_input,
               handle, streamer, thread, partial_text, turn, emitted, before,
               failure, started, orphans>>
vars == <<agentVars, queryVars, chatVars>>

-----------------------------------------------------------------------------
(* Python values                                                           *)

None == <<>>
Some(x) == <<x>>
IsNone(o) == Len(o) = 0
Val(o) == o[1]

Min(a, b) == IF a <= b THEN a ELSE b
Max(a, b) == IF a >= b THEN a ELSE b

UpperCase == <<"A", "B", "C", "D", "E", "F", "G", "H", "I", "J", "K", "L", "M", "N", "O", "P", "Q", "R", "S", "T", "U", "V", "W", "X", "Y", "Z">>
LowerCase == <<"a", "b", "c", "d", "e", "f", "g", "h", "i", "j", "k", "l", "m", "n", "o", "p", "q", "r", "s", "t", "u", "v", "w", "x", "y", "z">>

\* str.lower() on one character
LowerChar(c) ==
    IF \E i \in 1..Len(UpperCase) : UpperCase[i] = c
    THEN LowerCase[CHOOSE i \in 1..Len(UpperCase) : UpperCase[i] = c]
    ELSE c

\* str.lower()
Lower(s) == [i \in 1..Len(s) |-> LowerChar(s[i])]

\* Python's "k in s" for strings: k occurs in s as a contiguous substring
Contains(s, k) ==
    \E i \in 1..(Len(s) - Len(k) + 1) :
        \A j \in 1..Len(k) : s[i + j - 1] = k[j]

\* the characters str.strip() removes (those that occur in the inputs drawn)
Whitespace == {" ", "\n", "\t", "\r"}

\* str.strip()
Strip(s) ==
    IF \A i \in 1..Len(s) : s[i] \in Whitespace THEN <<>>
    ELSE LET first == CHOOSE i \in 1..Len(s) :
                         /\ s[i] \notin Whitespace
                         /\ \A j \in 1..(i - 1) : s[j] \in Whitespace
             last  == CHOOSE i \in 1..Len(s) :
                         /\ s[i] \notin Whitespace
                         /\ \A j \in (i + 1)..Len(s) : s[j] \in Whitespace
         IN  SubSeq(s, first, last)

\* sep.join(parts)
RECURSIVE Join(_, _)
Join(sep, parts) ==
    IF Len(parts) = 0 THEN <<>>
    ELSE IF Len(parts) = 1 THEN parts[1]
    ELSE parts[1] \o sep \o Join(sep, Tail(parts))

\* sum(1 for kw in keywords if kw in text)
RECURSIVE CountPresent(_, _)
CountPresent(keywords, text) ==
    IF Len(keywords) = 0 THEN 0
    ELSE (IF Contains(text, Head(keywords)) THEN 1 ELSE 0)
         + CountPresent(Tail(keywords), text)

\* round(x, 2) of an exact decimal x counted in units of 0.00001, in
\* hundredths.  Where x lies exactly halfway between two hundredths the
\* binary floating-point error of the code's arithmetic decides the result,
\* so the inputs drawn below leave those contents out (IsRoundingTie).
Round2(x) ==
    LET q == x \div 1000
        r == x % 1000
    IN  IF r > 500 \/ (r = 500 /\ q % 2 = 1) THEN q + 1 ELSE q

-----------------------------------------------------------------------------
(* src/backend/agents/script_reviewer.py                                   *)

positive_keywords ==
    << <<"c", "r", "e", "a", "t", "i", "v", "e">>, <<"i", "n", "n", "o", "v", "a", "t", "i", "v", "e">>, <<"c", "o", "m", "p", "e", "l", "l", "i", "n", "g">>, <<"e", "n", "g", "a", "g", "i", "n", "g">>, <<"u", "n", "i", "q", "u", "e">> >>
negative_keywords ==
    << <<"g", "e", "n", "e", "r", "i", "c">>, <<"b", "o", "r", "i", "n", "g">>, <<"u", "n", "c", "l", "e", "a", "r">>, <<"c", "o", "n", "f", "u", "s", "i", "n", "g">> >>

\* base_score = min(0.5 + (content_length / 2000) * 0.3, 0.95)
ScriptBaseScore(content_length) ==
    Min(50000 + (content_length * 30000) \div 2000, 95000)

\* score_adjustment = (positive_count * 0.05) - (negative_count * 0.1)
ScriptAdjustment(c) ==
    CountPresent(positive_keywords, Lower(c)) * 5000
    - CountPresent(negative_keywords, Lower(c)) * 10000

\* a faulty variant of ScriptFinalScore: the upper clamp is lost
ScriptFinalScoreNoCeiling(c) ==
    Max(10000, ScriptBaseScore(Len(c)) + ScriptAdjustment(c))

\* final_score = max(0.1, min(0.95, base_score + score_adjustment))
ScriptFinalScore(c) ==
    Max(10000, Min(95000, ScriptBaseScore(Len(c)) + ScriptAdjustment(c)))

\* the if / elif / else on final_score, before it is rounded
ScriptVerdict(final_score) ==
    IF final_score >= 70000 THEN "Good fit"
    ELSE IF final_score >= 50000 THEN "Needs revision"
    ELSE "Requires significant work"

evaluate_script(c, p, r) ==
    LET final_score == ScriptFinalScore(c)
    IN  [ agent_used |-> "script_reviewer",
          score      |-> Round2(final_score),
          summary    |-> Len(c),      \* "Content length: {content_length}"
          details    |-> [ verdict        |-> ScriptVerdict(final_score),
                           content_length |-> Len(c) ] ]

-----------------------------------------------------------------------------
(* src/backend/agents/impact_agent.py                                      *)

sensitive_topics ==
    << [ topic    |-> "violence",
         keywords |-> << <<"v", "i", "o", "l", "e", "n", "c", "e">>, <<"v", "i", "o", "l", "e", "n", "t">>, <<"f", "i", "g", "h", "t">>, <<"a", "t", "t", "a", "c", "k">>, <<"w", "a", "r">> >> ],
       [ topic    |-> "discrimination",
         keywords |-> << <<"d", "i", "s", "c", "r", "i", "m", "i", "n", "a", "t", "i", "o", "n">>, <<"p", "r", "e", "j", "u", "d", "i", "c", "e">>, <<"b", "i", "a", "s">>, <<"s", "t", "e", "r", "e", "o", "t", "y", "p", "e">> >> ],
       [ topic    |-> "sensitive_content",
         keywords |-> << <<"t", "r", "a", "u", "m", "a">>, <<"a", "b", "u", "s", "e">>, <<"h", "a", "r", "a", "s", "s", "m", "e", "n", "t">>, <<"e", "x", "p", "l", "o", "i", "t", "a", "t", "i", "o", "n">> >> ] >>

positive_indicators ==
    << <<"d", "i", "v", "e", "r", "s", "i", "t", "y">>, <<"i", "n", "c", "l", "u", "s", "i", "o", "n">>, <<"e", "m", "p", "o", "w", "e", "r", "m", "e", "n", "t">>, <<"r", "e", "p", "r", "e", "s", "e", "n", "t", "a", "t", "i", "o", "n">>, <<"a", "w", "a", "r", "e", "n", "e", "s", "s">> >>

\* any(kw in content_lower for kw in keywords)
AnyPresent(keywords, text) ==
    \E i \in 1..Len(keywords) : Contains(text, keywords[i])

\* detected_topics, in the order of the dictionary
DetectedTopics(content_lower) ==
    LET hit == SelectSeq(sensitive_topics,
                         LAMBDA t : AnyPresent(t.keywords, content_lower))
    IN  [i \in 1..Len(hit) |-> hit[i].topic]

\* a faulty variant of ImpactBaseScore: the floor is applied after the positive
\* indicators are added
ImpactBaseScoreLateFloor(n_topics, positive_count) ==
    Min(95000, Max(20000, 70000 - 20000 * n_topics + positive_count * 5000))

\* base_score after lines 40-50
ImpactBaseScore(n_topics, positive_count) ==
    LET penalised == IF n_topics > 0
                     THEN Max(20000, 70000 + (-20000) * n_topics)
                     ELSE 70000
    IN  Min(95000, penalised + positive_count * 5000)

\* the if / elif / else on the rounded final_score
ImpactLevel(final_score) ==
    IF final_score >= 70 THEN "Positive"
    ELSE IF final_score >= 50 THEN "Mixed"
    ELSE "Needs Review"

evaluate_impact(c, p, r) ==
    LET content_lower   == Lower(c)
        detected_topics == DetectedTopics(content_lower)
        positive_count  == CountPresent(positive_indicators, content_lower)
        final_score     == Round2(ImpactBaseScore(Len(detected_topics),
                                                  positive_count))
    IN  [ agent_used |-> "impact_agent",
          score      |-> final_score,
          summary    |-> Len(detected_topics),   \* "Detected {n} sensitive ..."
          details    |-> [ impact_level    |-> ImpactLevel(final_score),
                           detected_topics |->
                               IF Len(detected_topics) > 0 THEN detected_topics
                               ELSE << "None detected" >> ] ]

-----------------------------------------------------------------------------
(* src/backend/orchestrator.py                                             *)

impact_keywords ==
    << <<"i", "m", "p", "a", "c", "t">>, <<"s", "e", "n", "s", "i", "t", "i", "v", "i", "t", "y">>, <<"s", "e", "n", "s", "i", "t", "i", "v", "e">>, <<"s", "o", "c", "i", "a", "l">>, <<"c", "u", "l", "t", "u", "r", "a", "l">>,
       <<"r", "e", "p", "r", "e", "s", "e", "n", "t", "a", "t", "i", "o", "n">>, <<"d", "i", "v", "e", "r", "s", "i", "t", "y">>, <<"i", "n", "c", "l", "u", "s", "i", "o", "n">>, <<"h", "a", "r", "m", "f", "u", "l">>,
       <<"o", "f", "f", "e", "n", "s", "i", "v", "e">>, <<"a", "p", "p", "r", "o", "p", "r", "i", "a", "t", "e">>, <<"s", "u", "i", "t", "a", "b", "l", "e">>, <<"c", "o", "n", "c", "e", "r", "n", "s">>, <<"r", "i", "s", "k", "s">>,
       <<"e", "t", "h", "i", "c", "a", "l">> >>

\* a faulty variant of is_impact_query: the prompt is matched as typed
is_impact_query_case_sensitive(p) ==
    AnyPresent(impact_keywords, IF IsNone(p) THEN <<>> ELSE Val(p))

\* prompt_lower = (prompt or "").lower(); any(keyword in prompt_lower ...)
is_impact_query(p) ==
    LET prompt_lower == Lower(IF IsNone(p) THEN <<>> ELSE Val(p))
    IN  AnyPresent(impact_keywords, prompt_lower)

route(c, p, r) ==
    IF is_impact_query(p) THEN evaluate_impact(c, p, r)
    ELSE evaluate_script(c, p, r)

-----------------------------------------------------------------------------
(* The texts the calls are applied to                                      *)

MaxPieces == 2      \* phrases joined into one content
MaxFill == 5        \* blocks of filler appended to a content

FillBlock == 5 * 131

ContentPieces ==
    { <<"p", "l", "a", "i", "n">>,
      <<"d", "i", "v", "e", "r", "s", "i", "t", "y">>,
      <<"I", "n", "c", "l", "u", "s", "i", "o", "n", ",", " ", "e", "m", "p", "o", "w", "e", "r", "m", "e", "n", "t", " ", "a", "n", "d", " ", "r", "e", "p", "r", "e", "s", "e", "n", "t", "a", "t", "i", "o", "n">>,
      <<"a", "w", "a", "r", "e", "n", "e", "s", "s">>,
      <<"a", " ", "v", "i", "o", "l", "e", "n", "t", " ", "a", "t", "t", "a", "c", "k">>,
      <<"b", "i", "a", "s">>,
      <<"w", "a", "r", ",", " ", "p", "r", "e", "j", "u", "d", "i", "c", "e", " ", "a", "n", "d", " ", "t", "r", "a", "u", "m", "a">>,
      <<"c", "r", "e", "a", "t", "i", "v", "e">>,
      <<"I", "n", "n", "o", "v", "a", "t", "i", "v", "e", ",", " ", "c", "o", "m", "p", "e", "l", "l", "i", "n", "g", ",", " ", "e", "n", "g", "a", "g", "i", "n", "g", ",", " ", "u", "n", "i", "q", "u", "e">>,
      <<"b", "o", "r", "i", "n", "g">>,
      <<"g", "e", "n", "e", "r", "i", "c", ",", " ", "u", "n", "c", "l", "e", "a", "r", ",", " ", "c", "o", "n", "f", "u", "s", "i", "n", "g">> }

RECURSIVE PieceSeqs(_)
PieceSeqs(n) ==
    IF n = 0 THEN { <<>> }
    ELSE PieceSeqs(n - 1)
         \cup { Append(ps, p) : ps \in PieceSeqs(n - 1), p \in ContentPieces }

Filler(n) == [i \in 1..n |-> "."]

IsRoundingTie(c) == Len(c) % 200 = 100

\* no phrase to MaxPieces phrases, and no phrase or one followed by filler
ShortContents == { Join(<<" ">>, ps) : ps \in PieceSeqs(1) }
Contents ==
    { c \in { Join(<<" ">>, ps) : ps \in PieceSeqs(MaxPieces) }
            \cup { c0 \o Filler(k * FillBlock) :
                      c0 \in ShortContents, k \in 1..MaxFill } :
        ~IsRoundingTie(c) }

Prompts ==
    { None, Some(<<>>), Some(<<"R", "e", "v", "i", "e", "w", " ", "m", "y", " ", "s", "c", "r", "i", "p", "t">>), Some(<<"r", "a", "t", "e", " ", "t", "h", "e", " ", "p", "a", "c", "i", "n", "g">>),
      Some(<<"a", "n", "y", " ", "r", "i", "s", "k", " ", "o", "r", " ", "c", "o", "n", "c", "e", "r", "n", "?">>), Some(<<"c", "h", "e", "c", "k", " ", "s", "o", "c", "i", "a", "l", " ", "i", "m", "p", "a", "c", "t">>),
      Some(<<"I", "s", " ", "i", "t", " ", "S", "E", "N", "S", "I", "T", "I", "V", "E", "?">>), Some(<<"I", "m", "p", "a", "c", "t", "f", "u", "l", "?">>), Some(<<"u", "n", "s", "u", "i", "t", "a", "b", "l", "e">>),
      Some(<<"R", "i", "s", "k", "s">>) }
    \cup { Some(impact_keywords[i]) : i \in 1..Len(impact_keywords) }

Rubrics == { None, Some(<<"b", "e", " ", "k", "i", "n", "d">>), Some(<<"s", "o", "c", "i", "a", "l", " ", "i", "m", "p", "a", "c", "t">>) }

AgentIdle ==
    /\ called = "none"
    /\ result = None

InitAgents ==
    /\ \/ /\ content \in ShortContents
          /\ prompt \in Prompts
          /\ rubric_text \in Rubrics
       \/ /\ content \in Contents
          /\ prompt = None
          /\ rubric_text = None
    /\ AgentIdle

CallRoute ==
    /\ called = "none"
    /\ called' = "route"
    /\ result' = Some(route(content, prompt, rubric_text))
    /\ UNCHANGED <<content, prompt, rubric_text>>
    /\ UNCHANGED <<queryVars, chatVars>>

CallEvaluateScript ==
    /\ called = "none"
    /\ called' = "evaluate_script"
    /\ result' = Some(evaluate_script(content, prompt, rubric_text))
    /\ UNCHANGED <<content, prompt, rubric_text>>
    /\ UNCHANGED <<queryVars, chatVars>>

CallEvaluateImpact ==
    /\ called = "none"
    /\ called' = "evaluate_impact"
    /\ result' = Some(evaluate_impact(content, prompt, rubric_text))
    /\ UNCHANGED <<content, prompt, rubric_text>>
    /\ UNCHANGED <<queryVars, chatVars>>

-----------------------------------------------------------------------------
(* src/backend/main.py                                                     *)

\* DEFAULT_RUBRIC (its opening words; the agents never read the rubric)
DEFAULT_RUBRIC == <<"S", "a", "i", "L", " ", "m", "e", "r", "g", "e", "s", " ", "a", "r", "t", "s", ",", " ", "t", "e", "c", "h", "n", "o", "l", "o", "g", "y", ",", " ", "a", "n", "d", " ", "s", "o", "c", "i", "a", "l", " ", "i", "m", "p", "a", "c", "t">>

\* the printable ASCII characters, code points 32 to 126 (the double quote,
\* the backslash and the backtick are named)
Ascii ==
    <<" ", "!">> \o << "dquote" >>
    \o <<"#", "$", "%", "&", "'", "(", ")", "*", "+", ",", "-", ".", "/", "0", "1", "2", "3", "4", "5", "6", "7", "8", "9", ":", ";", "<", "=", ">", "?", "@", "A", "B", "C", "D", "E", "F", "G", "H", "I", "J", "K", "L", "M", "N", "O", "P", "Q", "R", "S", "T", "U", "V", "W", "X", "Y", "Z", "[">>
    \o << "backslash" >>
    \o <<"]", "^", "_">> \o << "backtick" >> \o <<"a", "b", "c", "d", "e", "f", "g", "h", "i", "j", "k", "l", "m", "n", "o", "p", "q", "r", "s", "t", "u", "v", "w", "x", "y", "z", "{", "|", "}", "~">>

\* the character of a code point; one outside ASCII is named by its number
Chr(n) ==
    IF n >= 32 /\ n <= 126 THEN Ascii[n - 31]
    ELSE IF n = 10 THEN "\n"
    ELSE IF n = 9 THEN "\t"
    ELSE IF n = 13 THEN "\r"
    ELSE ToString(n)

\* bytes.decode('latin-1'): every byte is the code point
Latin1Decode(bytes) == [i \in 1..Len(bytes) |-> Chr(bytes[i])]

\* bytes.decode('utf-8') for one- and two-byte sequences: None where the
\* bytes are not valid UTF-8 (UnicodeDecodeError)
RECURSIVE Utf8Decode(_)
Utf8Decode(bytes) ==
    IF Len(bytes) = 0 THEN Some(<<>>)
    ELSE IF bytes[1] < 128
    THEN LET rest == Utf8Decode(Tail(bytes))
         IN  IF IsNone(rest) THEN None
             ELSE Some(<<Chr(bytes[1])>> \o Val(rest))
    ELSE IF /\ bytes[1] >= 194 /\ bytes[1] <= 223 /\ Len(bytes) >= 2
            /\ bytes[2] >= 128 /\ bytes[2] <= 191
    THEN LET rest == Utf8Decode(SubSeq(bytes, 3, Len(bytes)))
         IN  IF IsNone(rest) THEN None
             ELSE Some(<<Chr((bytes[1] - 192) * 64 + (bytes[2] - 128))>>
                       \o Val(rest))
    ELSE None

\* extract_text_from_txt: UTF-8 first, latin-1 on UnicodeDecodeError
extract_text_from_txt(file_content) ==
    LET utf8 == Utf8Decode(file_content.bytes)
    IN  IF IsNone(utf8) THEN Latin1Decode(file_content.bytes) ELSE Val(utf8)

\* text += page.extract_text() + "\n" over the pages
RECURSIVE PagesText(_)
PagesText(pages) ==
    IF Len(pages) = 0 THEN <<>>
    ELSE Head(pages) \o <<"\n">> \o PagesText(Tail(pages))

\* extract_text_from_pdf: None stands for the HTTPException(400) raised when
\* PyPDF2 cannot read the bytes; file_content.pages is what PyPDF2 reads
extract_text_from_pdf(file_content) ==
    IF IsNone(file_content.pages) THEN None
    ELSE Some(Strip(PagesText(Val(file_content.pages))))

\* filename.split('.')[-1].lower() if filename else ''
RECURSIVE LastSegment(_)
LastSegment(name) ==
    IF \E i \in 1..Len(name) : name[i] = "."
    THEN LastSegment(SubSeq(name,
                            1 + (CHOOSE i \in 1..Len(name) : name[i] = "."),
                            Len(name)))
    ELSE name
FileExtension(filename) ==
    IF Len(filename) = 0 THEN <<>> ELSE Lower(LastSegment(filename))

\* the text of an upload: None stands for the HTTPException(400) of an
\* unsupported extension or of an unreadable PDF
ExtractUpload(file) ==
    LET file_extension == FileExtension(file.filename)
    IN  IF file_extension = <<"p", "d", "f">> THEN extract_text_from_pdf(file)
        ELSE IF file_extension = <<"t", "x", "t">> THEN Some(extract_text_from_txt(file))
        ELSE None

\* "if text_input:" of a str or None
Truthy(o) == ~IsNone(o) /\ Len(Val(o)) > 0

\* content_parts before the script file is read (lines 110-114)
TextParts(text_input) ==
    IF Truthy(text_input) THEN << Strip(Val(text_input)) >> ELSE <<>>

\* a faulty variant of HasContent: the content is not trimmed before the test
HasContentUntrimmed(text) == Len(text) > 0

\* the negation of "if not content_text.strip()" (line 137)
HasContent(text) == Len(Strip(text)) > 0

Rejected(code, assembled) ==
    [ status |-> code, content_text |-> assembled, routed |-> FALSE,
      response |-> None ]

\* the whole handler: what it answers and what it handed on
query_endpoint(text_input, p, script_file, rubric_file) ==
    LET extracted == IF IsNone(script_file) THEN None
                     ELSE ExtractUpload(Val(script_file))
    IN
    IF ~IsNone(script_file) /\ IsNone(extracted) THEN Rejected(400, None)
    ELSE
    LET content_parts == TextParts(text_input)
                         \o (IF IsNone(script_file) THEN <<>>
                             ELSE << Val(extracted) >>)
        assembled     == Join(<<"\n", "\n">>, content_parts)
        rubric        == IF IsNone(rubric_file) THEN Some(DEFAULT_RUBRIC)
                         ELSE ExtractUpload(Val(rubric_file))
    IN
    IF ~HasContent(assembled) THEN Rejected(400, Some(assembled))
    ELSE IF IsNone(rubric) THEN Rejected(400, Some(assembled))
    ELSE [ status       |-> 200,
           content_text |-> Some(assembled),
           routed       |-> TRUE,
           response     |-> Some(route(assembled, p, rubric)) ]

\* an upload: its name, its bytes, and the pages PyPDF2 reads out of them
\* (None: not a readable PDF)
Upload(name, bytes, pages) ==
    [ filename |-> name, bytes |-> bytes, pages |-> pages ]

PdfMagic == << 37, 80, 68, 70 >>      \* "%PDF"

ScriptFiles ==
    { Upload(<<"s", ".", "t", "x", "t">>, << 66 >>, None),                 \* "B"
      Upload(<<"e", ".", "t", "x", "t">>, << >>, None),                    \* an empty file
      Upload(<<"w", ".", "t", "x", "t">>, << 32, 10 >>, None),             \* " \n"
      Upload(<<"n", ".", "T", "X", "T">>, << 66, 10 >>, None),             \* "B\n"
      Upload(<<"l", ".", "t", "x", "t">>, << 233 >>, None),                \* latin-1 e-acute
      Upload(<<"u", ".", "t", "x", "t">>, << 195, 169 >>, None),           \* UTF-8 e-acute
      Upload(<<"t", "x", "t">>, << 66 >>, None),                   \* a name without a dot
      Upload(<<"x", ".", "d", "o", "c", "x">>, << 66 >>, None),
      Upload(<<>>, << 66 >>, None),
      Upload(<<"d", ".", "p", "d", "f">>, PdfMagic, Some(<< <<"B">>, <<" ", "C", " ">> >>)),
      Upload(<<"e", ".", "p", "d", "f">>, PdfMagic, Some(<< <<>> >>)),
      Upload(<<"c", ".", "p", "d", "f">>, << 66 >>, None) }                \* not a PDF

RubricFiles ==
    { Upload(<<"r", ".", "t", "x", "t">>, << 65 >>, None),
      Upload(<<"r", ".", "d", "o", "c", "x">>, << 65 >>, None),
      Upload(<<"r", ".", "p", "d", "f">>, << 65 >>, None) }

TextInputs == { None, Some(<<>>), Some(<<" ", " ">>), Some(<<"A">>), Some(<<" ", "A", "\n">>) }

QueryPrompts == { None, Some(<<"r", "e", "v", "i", "e", "w">>), Some(<<"c", "h", "e", "c", "k", " ", "S", "o", "c", "i", "a", "l", " ", "i", "m", "p", "a", "c", "t">>) }

QueryIdle ==
    /\ request = None
    /\ content_text = None
    /\ status = 0
    /\ response = None
    /\ routed = FALSE

\* POST /query: one request handled from its form fields to its response
QueryEndpoint ==
    /\ status = 0
    /\ UNCHANGED <<agentVars, chatVars>>
    /\ \E text_input \in TextInputs, p \in QueryPrompts,
       script_file \in {None} \cup { Some(f) : f \in ScriptFiles },
       rubric_file \in {None} \cup { Some(f) : f \in RubricFiles } :
        LET answer == query_endpoint(text_input, p, script_file, rubric_file)
        IN  /\ request' = Some([ text_input  |-> text_input,
                                 prompt      |-> p,
                                 script_file |-> script_file,
                                 rubric_file |-> rubric_file ])
            /\ content_text' = answer.content_text
            /\ status' = answer.status
            /\ response' = answer.response
            /\ routed' = answer.routed

-----------------------------------------------------------------------------
(* src/FineTunedLLM/app.py                                                 *)

MaxMessages == 2    \* a turn starts only in a Conversation shorter than this
MaxFragments == 2   \* fragments a generation task emits
MaxOrphans == 1     \* stopped script runs whose thread is followed

Backends ==
    { "Adapter (GPU)", "Adapter + CPU base", "Open demo (distilgpt2)",
      "Dummy echo" }

\* what the "CPU base model repo id" text input may hold
BaseModelIds == { "", "Qwen/Qwen2.5-1.5B-Instruct", "gpt2" }

\* the (backend, cpu_base_model) pairs the sidebar can produce (lines 176-197)
Selections ==
    { [ backend |-> b, cpu_base_model |-> None ] :
          b \in Backends \ { "Adapter + CPU base" } }
    \cup { [ backend |-> "Adapter + CPU base", cpu_base_model |-> Some(id) ] :
              id \in BaseModelIds }

\* index=2 if not has_cuda else 0 (line 184)
DefaultSelection(cuda) ==
    [ backend |-> IF cuda THEN "Adapter (GPU)" ELSE "Open demo (distilgpt2)",
      cpu_base_model |-> None ]

UserInputs == { <<"h", "i">>, <<"y", "o", "?">> }
\* the decoded pieces of the text a generation produces, in order: "ok", "!",
\* "ok", ...; how many of them are produced varies
Fragment(i) == IF i % 2 = 1 THEN <<"o", "k">> ELSE <<"!">>

\* whether the tokenizer a backend loads carries a chat template: the local
\* tokenizer ships chat_template.jinja (line 20), distilgpt2 has none
HasChatTemplate(backend) == backend # "Open demo (distilgpt2)"

\* the body of load_tokenizer_and_model: the pair it returns, or None where
\* it raises; env_ok says whether the from_pretrained calls succeed
LoadBody(sel, cuda, env_ok) ==
    IF ~env_ok THEN None                                  \* lines 21, 46-81
    ELSE IF sel.backend = "Adapter (GPU)"
    THEN IF ~cuda THEN None                               \* line 39
         ELSE Some([ tokenizer |-> Some([ chat_template |-> TRUE ]),
                     model     |-> Some([ base    |-> "adapter_config.json",
                                          adapter |-> TRUE ]) ])
    ELSE IF sel.backend = "Adapter + CPU base"
    THEN IF IsNone(sel.cpu_base_model) \/ Val(sel.cpu_base_model) = ""
         THEN None                                        \* line 56
         ELSE Some([ tokenizer |-> Some([ chat_template |-> TRUE ]),
                     model     |-> Some([ base    |-> Val(sel.cpu_base_model),
                                          adapter |-> TRUE ]) ])
    ELSE IF sel.backend = "Open demo (distilgpt2)"
    THEN Some([ tokenizer |-> Some([ chat_template |-> FALSE ]),
                model     |-> Some([ base    |-> "distilgpt2",
                                     adapter |-> FALSE ]) ])
    ELSE IF sel.backend = "Dummy echo"
    THEN Some([ tokenizer |-> None, model |-> None ])
    ELSE None                                             \* line 87

\* a faulty variant of Lookup: the entry is found by the backend alone
LookupByBackend(sel) ==
    IF \E e \in cache : e.key.backend = sel.backend
    THEN Some((CHOOSE e \in cache : e.key.backend = sel.backend).handle)
    ELSE None

\* st.cache_resource: the value stored for the arguments (backend,
\* cpu_base_model), if there is one
Lookup(sel) ==
    IF \E e \in cache : e.key = sel
    THEN Some((CHOOSE e \in cache : e.key = sel).handle)
    ELSE None

Cached(sel) == ~IsNone(Lookup(sel))
CachedHandle(sel) == Val(Lookup(sel))

RoleText(role) == IF role = "user" THEN <<"u", "s", "e", "r">> ELSE <<"a", "s", "s", "i", "s", "t", "a", "n", "t">>

\* "[role] content" per message, a trailing "[assistant]", newline-joined
FallbackPrompt(msgs) ==
    Join(<<"\n">>,
         [ i \in 1..(Len(msgs) + 1) |->
             IF i <= Len(msgs)
             THEN <<"[">> \o RoleText(msgs[i].role) \o <<"]", " ">> \o msgs[i].content
             ELSE <<"[", "a", "s", "s", "i", "s", "t", "a", "n", "t", "]">> ])

\* format_prompt: the template's rendering is the tokenizer's own and is kept
\* opaque; None where apply_chat_template raises (template_ok = FALSE)
format_prompt(tokenizer, msgs, template_ok) ==
    IF tokenizer.chat_template
    THEN IF template_ok THEN Some(<<"<", "c", "h", "a", "t", " ", "t", "e", "m", "p", "l", "a", "t", "e", ">">>) ELSE None
    ELSE Some(FallbackPrompt(msgs))

\* a faulty variant of EchoText: the prefix loses its space
EchoTextNoSpace(msgs) == <<"E", "c", "h", "o", ":">> \o msgs[Len(msgs)].content

\* prefix + text of the dummy iterator (lines 122-125)
EchoText(msgs) == <<"E", "c", "h", "o", ":", " ">> \o msgs[Len(msgs)].content

\* a faulty variant of Accumulate: the fragment is put in front of the buffer
AccumulateInFront(buffer, token_text) == token_text \o buffer

\* partial_text += token_text (line 235)
Accumulate(buffer, token_text) == buffer \o token_text

RECURSIVE Flatten(_)
Flatten(fragments) ==
    IF Len(fragments) = 0 THEN <<>>
    ELSE Head(fragments) \o Flatten(Tail(fragments))

NoStream == [ kind |-> "none", rest |-> <<>>, queue |-> <<>>, prompt |-> <<>> ]

\* the first script run of a session is about to load the default backend
ChatStart(cudas) ==
    /\ messages = <<>>
    /\ has_cuda \in cudas
    /\ selection = DefaultSelection(has_cuda)
    /\ cache = {}
    /\ loads = [ k \in Selections |-> 0 ]
    /\ pc = "load"
    /\ user_input = None
    /\ handle = None
    /\ streamer = NoStream
    /\ thread = "none"
    /\ partial_text = <<>>
    /\ turn = "none"
    /\ emitted = <<>>
    /\ before = <<>>
    /\ failure = "none"
    /\ started = 0
    /\ orphans = 0

turnVars == <<turn, emitted, before, failure, started>>

\* the history of the latest turn is forgotten
ForgetTurn ==
    /\ turn' = "none"
    /\ emitted' = <<>>
    /\ before' = <<>>
    /\ failure' = "none"
    /\ started' = 0

\* the sidebar's selectbox or text input changes: the script reruns
SelectBackend ==
    /\ pc = "idle"
    /\ \E sel \in Selections \ { selection } : selection' = sel
    /\ pc' = "load"
    /\ ForgetTurn
    /\ UNCHANGED <<messages, has_cuda, cache, loads, user_input, handle,
                   streamer, thread, partial_text>>
    /\ UNCHANGED <<orphans, agentVars, queryVars>>

\* "Clear Chat" (lines 199-201): the Conversation is emptied, the script reruns
ClearChat ==
    /\ pc = "idle"
    /\ messages' = <<>>
    /\ pc' = "load"
    /\ ForgetTurn
    /\ UNCHANGED <<selection, has_cuda, cache, loads, user_input, handle,
                   streamer, thread, partial_text>>
    /\ UNCHANGED <<orphans, agentVars, queryVars>>

\* the user submits a chat input: the script reruns with it (line 211)
ChatInput ==
    /\ pc = "idle"
    /\ Len(messages) < MaxMessages
    /\ \E m \in UserInputs : user_input' = Some(m)
    /\ pc' = "load"
    /\ turn' = "running"
    /\ emitted' = <<>>
    /\ before' = messages
    /\ failure' = "none"
    /\ started' = 0
    /\ UNCHANGED <<messages, selection, has_cuda, cache, loads, handle,
                   streamer, thread, partial_text>>
    /\ UNCHANGED <<orphans, agentVars, queryVars>>

\* the script run ends: its locals are gone
RunEnds ==
    /\ pc' = "idle"
    /\ user_input' = None
    /\ handle' = None
    /\ streamer' = NoStream
    /\ thread' = "none"
    /\ partial_text' = <<>>

\* the script run ends with an exception before line 242
Abort(what) ==
    /\ RunEnds
    /\ IF IsNone(user_input)
       THEN UNCHANGED <<turn, failure>>
       ELSE turn' = "error" /\ failure' = what

\* line 203 to line 212: the cached handle or a construction; without a
\* chat input the run ends after rendering the Conversation
LoadTokenizerAndModel ==
    /\ pc = "load"
    /\ \E env_ok \in BOOLEAN :
         LET loaded == IF Cached(selection)
                       THEN Some(CachedHandle(selection))
                       ELSE LoadBody(selection, has_cuda, env_ok)
         IN  IF IsNone(loaded)
             THEN /\ Abort("backend")
                  /\ UNCHANGED <<cache, loads>>
             ELSE /\ cache' = cache \cup { [ key    |-> selection,
                                             handle |-> Val(loaded) ] }
                  /\ loads' = IF Cached(selection) THEN loads
                              ELSE [ loads EXCEPT ![selection] = @ + 1 ]
                  /\ IF IsNone(user_input)
                     THEN RunEnds
                     ELSE /\ handle' = loaded
                          /\ pc' = "input"
                          /\ UNCHANGED <<user_input, streamer, thread,
                                         partial_text>>
                  /\ UNCHANGED <<turn, failure>>
    /\ UNCHANGED <<messages, selection, has_cuda, emitted, before, started>>
    /\ UNCHANGED <<orphans, agentVars, queryVars>>

IsDummy(h) == IsNone(h.model) \/ IsNone(h.tokenizer)

\* lines 212-232: the user message is appended, then stream_generate either
\* returns the echo generator (dummy), or formats the prompt and starts the
\* generation thread, or raises before the thread exists (prepared = FALSE
\* stands for an exception of lines 130-134)
StreamGenerate ==
    /\ pc = "input"
    /\ messages' = Append(messages,
                          [ role |-> "user", content |-> Val(user_input) ])
    /\ IF IsDummy(Val(handle))
       THEN /\ streamer' = [ kind   |-> "generator",
                             rest   |-> EchoText(messages'),
                             queue  |-> <<>>,
                             prompt |-> <<>> ]
            /\ thread' = "none"
            /\ pc' = "draining"
            /\ partial_text' = <<>>
            /\ UNCHANGED <<turn, failure, started, user_input, handle>>
       ELSE \E prepared \in BOOLEAN :
              LET text == format_prompt(Val(Val(handle).tokenizer),
                                        messages', prepared)
              IN  IF IsNone(text)
                  THEN /\ Abort("prompt")
                       /\ UNCHANGED started
                  ELSE /\ streamer' = [ kind   |-> "queue",
                                        rest   |-> <<>>,
                                        queue  |-> <<>>,
                                        prompt |-> Val(text) ]
                       /\ thread' = "running"
                       /\ started' = started + 1
                       /\ pc' = "draining"
                       /\ partial_text' = <<>>
                       /\ UNCHANGED <<turn, failure, user_input, handle>>
    /\ UNCHANGED <<selection, has_cuda, cache, loads, emitted, before>>
    /\ UNCHANGED <<orphans, agentVars, queryVars>>

\* the generation thread: model.generate puts a decoded fragment on the
\* streamer's queue
GeneratePut ==
    /\ thread = "running"
    /\ Len(emitted) < MaxFragments
    /\ LET f == Fragment(Len(emitted) + 1)
       IN  /\ streamer' = [ streamer EXCEPT !.queue = Append(@, Some(f)) ]
           /\ emitted' = Append(emitted, f)
    /\ UNCHANGED <<messages, selection, has_cuda, cache, loads, pc, user_input,
                   handle, thread, partial_text, turn, before, failure,
                   started>>
    /\ UNCHANGED <<orphans, agentVars, queryVars>>

\* the generation thread: model.generate ends the stream (the stop signal,
\* None, goes on the queue) and returns
GenerateEnd ==
    /\ thread = "running"
    /\ streamer' = [ streamer EXCEPT !.queue = Append(@, None) ]
    /\ thread' = "ending"
    /\ UNCHANGED <<messages, selection, has_cuda, cache, loads, pc, user_input,
                   handle, partial_text, turn, emitted, before, failure,
                   started>>
    /\ UNCHANGED <<orphans, agentVars, queryVars>>

\* the generation thread: model.generate raises; the thread dies and no stop
\* signal is put
GenerateFail ==
    /\ thread = "running"
    /\ thread' = "dead"
    /\ failure' = "generation"
    /\ UNCHANGED <<messages, selection, has_cuda, cache, loads, pc, user_input,
                   handle, streamer, partial_text, turn, emitted, before,
                   started>>
    /\ UNCHANGED <<orphans, agentVars, queryVars>>

\* the generation thread terminates after model.generate returned
ThreadExit ==
    /\ thread = "ending"
    /\ thread' = "dead"
    /\ UNCHANGED <<messages, selection, has_cuda, cache, loads, pc, user_input,
                   handle, streamer, partial_text, turn, emitted, before,
                   failure, started>>
    /\ UNCHANGED <<orphans, agentVars, queryVars>>

\* one pass of "for token_text in streamer" (lines 234-236) that gets a
\* fragment: the generator yields its next character, or the queue's head is
\* taken; an empty queue blocks (TextIteratorStreamer waits without timeout)
DrainFragment ==
    /\ pc = "draining"
    /\ \/ /\ streamer.kind = "generator"
          /\ Len(streamer.rest) > 0
          /\ partial_text' = Accumulate(partial_text, << Head(streamer.rest) >>)
          /\ emitted' = Append(emitted, << Head(streamer.rest) >>)
          /\ streamer' = [ streamer EXCEPT !.rest = Tail(@) ]
       \/ /\ streamer.kind = "queue"
          /\ Len(streamer.queue) > 0
          /\ ~IsNone(Head(streamer.queue))
          /\ partial_text' = Accumulate(partial_text, Val(Head(streamer.queue)))
          /\ streamer' = [ streamer EXCEPT !.queue = Tail(@) ]
          /\ UNCHANGED emitted
    /\ UNCHANGED <<messages, selection, has_cuda, cache, loads, pc, user_input,
                   handle, thread, turn, before, failure, started>>
    /\ UNCHANGED <<orphans, agentVars, queryVars>>

\* the pass that ends the loop: the generator is exhausted, or the queue's
\* head is the stop signal
DrainStop ==
    /\ pc = "draining"
    /\ \/ /\ streamer.kind = "generator"
          /\ Len(streamer.rest) = 0
          /\ UNCHANGED streamer
       \/ /\ streamer.kind = "queue"
          /\ Len(streamer.queue) > 0
          /\ IsNone(Head(streamer.queue))
          /\ streamer' = [ streamer EXCEPT !.queue = Tail(@) ]
    /\ pc' = "join"
    /\ UNCHANGED <<messages, selection, has_cuda, cache, loads, user_input,
                   handle, thread, partial_text, turn, emitted, before,
                   failure, started>>
    /\ UNCHANGED <<orphans, agentVars, queryVars>>

\* "if thread is not None: thread.join()" (lines 238-239)
Join_ ==
    /\ pc = "join"
    /\ thread \in { "none", "dead" }
    /\ pc' = "append"
    /\ UNCHANGED <<messages, selection, has_cuda, cache, loads, user_input,
                   handle, streamer, thread, partial_text, turn, emitted,
                   before, failure, started>>
    /\ UNCHANGED <<orphans, agentVars, queryVars>>

\* a faulty variant of AppendAssistant: the assistant message is written over
\* the last message
AppendAssistantOverwrites ==
    /\ pc = "append"
    /\ messages' = [ messages EXCEPT ![Len(messages)] =
                        [ role |-> "assistant", content |-> partial_text ] ]
    /\ RunEnds
    /\ turn' = "appended"
    /\ UNCHANGED <<selection, has_cuda, cache, loads, emitted, before, failure,
                   started>>
    /\ UNCHANGED <<orphans, agentVars, queryVars>>

\* line 242: the assistant message is saved and the script run ends
AppendAssistant ==
    /\ pc = "append"
    /\ messages' = Append(messages,
                          [ role |-> "assistant", content |-> partial_text ])
    /\ RunEnds
    /\ turn' = "appended"
    /\ UNCHANGED <<selection, has_cuda, cache, loads, emitted, before, failure,
                   started>>
    /\ UNCHANGED <<orphans, agentVars, queryVars>>

\* a widget event (chat input, "Clear Chat", a sidebar control) arrives while
\* the answer streams: the script run is stopped inside placeholder.markdown
\* (line 236), so lines 238-242 are not executed, and the generation thread,
\* which nothing stops or joins, runs on; the event's rerun starts from idle
StopScriptRun ==
    /\ pc = "draining"
    /\ Len(partial_text) > 0
    /\ thread \in { "running", "ending" } => orphans < MaxOrphans
    /\ orphans' = orphans + (IF thread \in { "running", "ending" } THEN 1 ELSE 0)
    /\ RunEnds
    /\ turn' = "stopped"
    /\ emitted' = <<>>
    /\ before' = <<>>
    /\ failure' = "none"
    /\ started' = 0
    /\ UNCHANGED <<messages, selection, has_cuda, cache, loads>>
    /\ UNCHANGED <<agentVars, queryVars>>

\* a generation thread of a stopped script run terminates (model.generate
\* returns or raises)
OrphanExit ==
    /\ orphans > 0
    /\ orphans' = orphans - 1
    /\ UNCHANGED <<messages, selection, has_cuda, cache, loads, pc, user_input,
                   handle, streamer, thread, partial_text, turn, emitted,
                   before, failure, started>>
    /\ UNCHANGED <<agentVars, queryVars>>

-----------------------------------------------------------------------------
(* Specifications                                                          *)

AgentsUnused ==
    /\ content = <<>>
    /\ prompt = None
    /\ rubric_text = None
    /\ AgentIdle

\* the router and the agents applied to drawn texts
InitAgentCalls ==
    /\ InitAgents
    /\ QueryIdle
    /\ ChatStart({FALSE})

NextAgents ==
    \/ CallRoute
    \/ CallEvaluateScript
    \/ CallEvaluateImpact

SpecAgents == InitAgentCalls /\ [][NextAgents]_vars

\* the /query endpoint answering a request
InitQuery ==
    /\ AgentsUnused
    /\ QueryIdle
    /\ ChatStart({FALSE})

NextQuery == QueryEndpoint

SpecQuery == InitQuery /\ [][NextQuery]_vars

\* the chat frontend: the script run of main() and the generation thread
MainStep ==
    \/ LoadTokenizerAndModel
    \/ StreamGenerate
    \/ DrainFragment
    \/ DrainStop
    \/ Join_
    \/ AppendAssistant

ThreadStep ==
    \/ GeneratePut
    \/ GenerateEnd
    \/ GenerateFail
    \/ ThreadExit
    \/ OrphanExit

UserStep ==
    \/ SelectBackend
    \/ ClearChat
    \/ ChatInput
    \/ StopScriptRun

NextChat ==
    \/ UserStep
    \/ MainStep
    \/ ThreadStep

InitChat ==
    /\ AgentsUnused
    /\ QueryIdle
    /\ ChatStart(BOOLEAN)

SpecChat == InitChat /\ [][NextChat]_vars

\* the script run and the thread are scheduled whenever they can step; the
\* user may stop interacting
SpecChatFair ==
    /\ SpecChat
    /\ WF_vars(MainStep)
    /\ WF_vars(ThreadStep)

Spec == SpecChat

-----------------------------------------------------------------------------
(* The claims                                                              *)

\* k occurs in s at position i
OccursAt(s, k, i) == i + Len(k) - 1 <= Len(s) /\ SubSeq(s, i, i + Len(k) - 1) = k
\* the positions of s where k occurs
Occurrences(s, k) == { i \in 1..Len(s) : OccursAt(s, k, i) }
Occurs(s, k) == Occurrences(s, k) # {}

\* the occurrences in s of all the keywords of the set ks together
RECURSIVE TotalOccurrences(_, _)
TotalOccurrences(s, ks) ==
    IF ks = {} THEN 0
    ELSE LET k == CHOOSE x \in ks : TRUE
         IN  Cardinality(Occurrences(s, k)) + TotalOccurrences(s, ks \ {k})

\* the fifteen impact keywords of the specification
ClaimImpactKeywords ==
    { <<"i", "m", "p", "a", "c", "t">>, <<"s", "e", "n", "s", "i", "t", "i", "v", "i", "t", "y">>, <<"s", "e", "n", "s", "i", "t", "i", "v", "e">>, <<"s", "o", "c", "i", "a", "l">>, <<"c", "u", "l", "t", "u", "r", "a", "l">>,
      <<"r", "e", "p", "r", "e", "s", "e", "n", "t", "a", "t", "i", "o", "n">>, <<"d", "i", "v", "e", "r", "s", "i", "t", "y">>, <<"i", "n", "c", "l", "u", "s", "i", "o", "n">>, <<"h", "a", "r", "m", "f", "u", "l">>, <<"o", "f", "f", "e", "n", "s", "i", "v", "e">>,
      <<"a", "p", "p", "r", "o", "p", "r", "i", "a", "t", "e">>, <<"s", "u", "i", "t", "a", "b", "l", "e">>, <<"c", "o", "n", "c", "e", "r", "n", "s">>, <<"r", "i", "s", "k", "s">>, <<"e", "t", "h", "i", "c", "a", "l">> }

MentionsImpact(p) ==
    /\ ~IsNone(p)
    /\ \E k \in ClaimImpactKeywords : Occurs(Lower(Val(p)), k)

\* C1: route answers with the Impact Agent exactly when the lowercased
\* prompt contains one of the fifteen impact keywords, and with the
\* Script-Review Agent otherwise (a missing or empty prompt included),
\* whatever the content and the rubric; every call is answered by one agent.
C1_RouteByPromptKeyword ==
    called = "route" =>
        /\ ~IsNone(result)
        /\ Val(result).agent_used =
              IF MentionsImpact(prompt) THEN "impact_agent"
              ELSE "script_reviewer"

\* C1 witness: an upper-case keyword inside a sentence is routed to the
\* Impact Agent
C1_Witness ==
    /\ called = "route"
    /\ prompt = Some(<<"I", "s", " ", "i", "t", " ", "S", "E", "N", "S", "I", "T", "I", "V", "E", "?">>)
    /\ Val(result).agent_used = "impact_agent"

\* C2: each agent returns, and its score lies in [0, 1]: Script-Review in
\* [0.1, 0.95], Impact in [0.2, 0.95], for the empty, the short and the long
\* contents and every combination of keywords.
C2_ScoreInRange ==
    called # "none" =>
        /\ ~IsNone(result)
        /\ Val(result).score >= 0 /\ Val(result).score <= 100
        /\ Val(result).agent_used = "script_reviewer" =>
              Val(result).score >= 10 /\ Val(result).score <= 95
        /\ Val(result).agent_used = "impact_agent" =>
              Val(result).score >= 20 /\ Val(result).score <= 95

\* C2 witness: a content of more than 3000 characters scored at the ceiling
C2_Witness ==
    /\ called = "evaluate_script"
    /\ Len(content) > 3000
    /\ Val(result).score = 95

ClaimIndicators ==
    { <<"d", "i", "v", "e", "r", "s", "i", "t", "y">>, <<"i", "n", "c", "l", "u", "s", "i", "o", "n">>, <<"e", "m", "p", "o", "w", "e", "r", "m", "e", "n", "t">>, <<"r", "e", "p", "r", "e", "s", "e", "n", "t", "a", "t", "i", "o", "n">>,
      <<"a", "w", "a", "r", "e", "n", "e", "s", "s">> }

\* the impact score of n detected categories and a count of positives, in
\* hundredths
ClaimImpactScore(n, positives) == Min(95, Max(20, 70 - 20 * n) + 5 * positives)

IndicatorOccurrences(c) ==
    TotalOccurrences(Lower(c), ClaimIndicators)

DistinctIndicators(c) ==
    Cardinality({ k \in ClaimIndicators : Occurs(Lower(c), k) })

\* C7 as claimed: from 0.7, less 0.2 per detected category (floor 0.2), plus
\* 0.05 per occurrence of a positive-indicator keyword (ceiling 0.95).
C7_PerOccurrence ==
    called = "evaluate_impact" =>
        Val(result).score =
            ClaimImpactScore(Val(result).summary, IndicatorOccurrences(content))

\* C7 as amended: from 0.7, less 0.2 per detected category (floor 0.2), plus
\* 0.05 per distinct positive-indicator keyword that occurs in the content,
\* however often it occurs (ceiling 0.95).
C7_PerDistinctIndicator ==
    called = "evaluate_impact" =>
        Val(result).score =
            ClaimImpactScore(Val(result).summary, DistinctIndicators(content))

\* C7 witness: an indicator occurring twice is counted once
C7_Witness ==
    /\ called = "evaluate_impact"
    /\ content = <<"d", "i", "v", "e", "r", "s", "i", "t", "y", " ", "d", "i", "v", "e", "r", "s", "i", "t", "y">>
    /\ Val(result).score = 75

ClaimTier(score, high, middle, low) ==
    IF score >= 70 THEN high ELSE IF score >= 50 THEN middle ELSE low

\* C8: the tier label of a result agrees with the score of the same result:
\* "Good fit" / "Positive" iff score >= 0.7, "Needs revision" / "Mixed" iff
\* 0.5 <= score < 0.7, "Requires significant work" / "Needs Review" iff
\* score < 0.5.
C8_LabelAgreesWithScore ==
    called # "none" =>
        IF Val(result).agent_used = "script_reviewer"
        THEN Val(result).details.verdict =
                ClaimTier(Val(result).score, "Good fit", "Needs revision",
                          "Requires significant work")
        ELSE Val(result).details.impact_level =
                ClaimTier(Val(result).score, "Positive", "Mixed", "Needs Review")

\* the text of each source the request provides, in source order: the
\* trimmed text_input, then the text extracted from the script file
ProvidedSources(req) ==
    (IF IsNone(req.text_input) THEN <<>>
     ELSE << Strip(Val(req.text_input)) >>)
    \o (IF IsNone(req.script_file) \/ IsNone(ExtractUpload(Val(req.script_file)))
        THEN <<>>
        ELSE << Val(ExtractUpload(Val(req.script_file))) >>)

NonEmpty(s) == Len(s) > 0

\* C3: the content forwarded to the Router is the provided sources that are
\* non-empty, in source order, joined by one blank line; an empty source
\* contributes neither text nor separator.
C3_ContentJoinsNonEmptySources ==
    routed =>
        content_text =
            Some(Join(<<"\n", "\n">>, SelectSeq(ProvidedSources(Val(request)), NonEmpty)))

\* C4: a request whose every provided source is empty after trimming (or
\* that provides none) is rejected with 400 and never reaches the Router,
\* whatever prompt and rubric_file come with it.
C4_BlankContentRejected ==
    ( /\ status # 0
      /\ \A i \in 1..Len(ProvidedSources(Val(request))) :
            Strip(ProvidedSources(Val(request))[i]) = <<>> )
    => /\ status = 400
       /\ ~routed
       /\ IsNone(response)

\* C4 witness: whitespace-only text and a whitespace-only file, sent with a
\* prompt and a rubric file, are rejected after the content was assembled
C4_Witness ==
    /\ status = 400
    /\ ~routed
    /\ ~IsNone(request)
    /\ Val(request).text_input = Some(<<" ", " ">>)
    /\ ~IsNone(Val(request).script_file)
    /\ Val(Val(request).script_file).filename = <<"w", ".", "t", "x", "t">>
    /\ ~IsNone(Val(request).prompt)
    /\ ~IsNone(Val(request).rubric_file)
    /\ ~IsNone(content_text)

\* C5: when a turn has completed, the assistant message appended to the
\* Conversation is the concatenation, in the order produced, of the
\* fragments the turn's stream emitted.
C5_AppendedIsStreamedText ==
    turn = "appended" =>
        /\ Len(messages) > 0
        /\ messages[Len(messages)] =
              [ role |-> "assistant", content |-> Flatten(emitted) ]

\* C5 witness: a model-backend turn that streamed two different fragments
\* has completed
C5_Witness ==
    /\ turn = "appended"
    /\ started = 1
    /\ Len(emitted) = 2
    /\ emitted[1] # emitted[2]

\* C6: on the dummy backend stream_generate starts no thread and yields
\* single characters that concatenate to "Echo: " followed by the last user
\* message, and no more.
C6_DummyEcho ==
    ( /\ pc \in { "draining", "join", "append" }
      /\ IsDummy(Val(handle)) )
    => /\ thread = "none"
       /\ started = 0
       /\ \A i \in 1..Len(emitted) : Len(emitted[i]) = 1
       /\ Flatten(emitted) \o streamer.rest = <<"E", "c", "h", "o", ":", " ">> \o Val(user_input)
       /\ pc # "draining" => streamer.rest = <<>>
       /\ messages[Len(messages)] =
              [ role |-> "user", content |-> Val(user_input) ]

\* C6 witness: the echo of "hi" has been streamed to its end
C6_Witness ==
    /\ pc = "join"
    /\ IsDummy(Val(handle))
    /\ Flatten(emitted) = <<"E", "c", "h", "o", ":", " ", "h", "i">>

\* C9: a turn in which backend resolution, prompt formatting or generation
\* failed ends in Error, and no assistant message is appended for it: the
\* Conversation is the one before the turn, with at most the turn's user
\* message added.
C9_FailedTurnEndsInError ==
    /\ (failure # "none") ~> (turn = "error")
    /\ [](failure # "none" =>
            \/ messages = before
            \/ /\ Len(messages) = Len(before) + 1
               /\ SubSeq(messages, 1, Len(before)) = before
               /\ messages[Len(messages)].role = "user")

\* C10: every turn that starts finishes, in Appended or in Error.
C10_TurnEventuallyFinishes ==
    (turn = "running") ~> (turn \in { "appended", "error" })

\* the generation tasks that are alive: the thread of the running script run
\* and the threads that outlived their script run
AliveTasks ==
    orphans + (IF thread \in { "running", "ending" } THEN 1 ELSE 0)

\* C11: at most one background generation task is alive: a turn starts at
\* most one task, the task has terminated before the turn's assistant
\* message is appended, and no turn starts a task while the task of an
\* earlier turn still runs.
C11_AtMostOneTaskAlive ==
    /\ started <= 1
    /\ pc = "append" => thread \in { "none", "dead" }
    /\ AliveTasks <= 1

\* the cache holds one entry per key that was constructed, and the entries
\* of different keys hold different handles
C12_Entries ==
    /\ \A k \in Selections : loads[k] <= 1
    /\ \A k \in Selections : (loads[k] = 1) <=> (\E e \in cache : e.key = k)
    /\ \A e1, e2 \in cache : (e1.key = e2.key) <=> (e1.handle = e2.handle)
    /\ ~IsNone(handle) =>
          [ key |-> selection, handle |-> Val(handle) ] \in cache
    /\ failure = "backend" => ~(\E e \in cache : e.key = selection)
    /\ ( /\ pc = "load"
         /\ ~IsNone(LoadBody(selection, has_cuda, TRUE)) )
       => ENABLED ( /\ LoadTokenizerAndModel
                    /\ \E e \in cache' : e.key = selection )

\* a step changes the cache only by adding the handle it constructed for the
\* current selection; a load that raises changes nothing
C12_Step ==
    /\ cache \subseteq cache'
    /\ cache' # cache =>
          /\ pc = "load"
          /\ loads[selection] = 0
          /\ loads' = [ loads EXCEPT ![selection] = 1 ]
          /\ \E h \in cache' \ cache : /\ h.key = selection
                                        /\ cache' = cache \cup { h }
    /\ cache' = cache => loads' = loads

\* C12: the handle of a key (backend, base-model-id) is constructed at most
\* once after a successful load and every later turn with that key uses it;
\* two different keys never share a handle; a load that fails stores no
\* entry, leaves the other entries as they are and does not prevent a later
\* load.
C12_HandlePerKey ==
    /\ []C12_Entries
    /\ [][C12_Step]_vars

\* C12 witness: the handles of two keys that differ only in the base model
\* are cached and differ, and the load of a third selection has failed in
\* the latest turn without storing an entry
C12_Witness ==
    /\ failure = "backend"
    /\ ~(\E e \in cache : e.key = selection)
    /\ \E e1, e2 \in cache :
          /\ e1.key.backend = e2.key.backend
          /\ e1.key # e2.key
          /\ e1.handle # e2.handle

Role(i) == messages[i].role

\* C13 as claimed: the Conversation is user and assistant messages strictly
\* alternating, starting with a user message, and every user message of a
\* finished turn is followed by its assistant message.
C13_StrictlyAlternating ==
    /\ \A i \in 1..Len(messages) :
          Role(i) = IF i % 2 = 1 THEN "user" ELSE "assistant"
    /\ turn = "appended" =>
          /\ Len(messages) >= 2
          /\ Role(Len(messages) - 1) = "user"
          /\ Role(Len(messages)) = "assistant"

\* the shape the Conversation keeps: it starts with a user message and every
\* assistant message directly follows a user message; a turn in progress
\* has added at most its user message, which is there once generation has
\* started, and a finished turn has added its user message and then its
\* assistant message
C13_Shape ==
    /\ \A i \in 1..Len(messages) : Role(i) \in { "user", "assistant" }
    /\ \A i \in 1..Len(messages) :
          Role(i) = "assistant" => i > 1 /\ Role(i - 1) = "user"
    /\ turn = "running" =>
          /\ \/ messages = before
             \/ messages = Append(before, [ role    |-> "user",
                                            content |-> Val(user_input) ])
          /\ (started > 0 \/ pc \in { "draining", "join", "append" })
                => messages # before
    /\ turn = "appended" =>
          /\ Len(messages) = Len(before) + 2
          /\ SubSeq(messages, 1, Len(before)) = before
          /\ Role(Len(messages) - 1) = "user"
          /\ Role(Len(messages)) = "assistant"

\* a step leaves the Conversation alone, appends one message to it (the user
\* message before the generation starts, the assistant message at the end
\* of the turn), or is "Clear Chat" emptying it
C13_Step ==
    \/ messages' = messages
    \/ /\ pc = "idle"
       /\ messages' = <<>>
    \/ /\ pc = "input"
       /\ started = 0
       /\ messages' = Append(messages, [ role    |-> "user",
                                         content |-> Val(user_input) ])
    \/ /\ pc = "append"
       /\ turn = "running"
       /\ turn' = "appended"
       /\ Len(messages') = Len(messages) + 1
       /\ SubSeq(messages', 1, Len(messages)) = messages
       /\ Role(Len(messages)) = "user"
       /\ messages'[Len(messages')].role = "assistant"

\* C13 as amended: the Conversation is changed only by appending or by Clear
\* emptying it; each turn appends its user message before generation starts
\* and at most one assistant message after it; the Conversation starts with
\* a user message, every assistant message directly follows a user message,
\* and the user message of a finished turn is followed by its assistant
\* message.  A turn that ends without appending leaves its user message
\* unanswered, so two user messages can be adjacent.
C13_AppendOnlyAnsweredByOne ==
    /\ []C13_Shape
    /\ [][C13_Step]_vars

\* C13 witness: a turn has finished after a turn that ended without an
\* assistant message: user, user, assistant
C13_Witness ==
    /\ turn = "appended"
    /\ Len(messages) = 3
    /\ Role(1) = "user"
    /\ Role(2) = "user"
    /\ Role(3) = "assistant"

=============================================================================
